---- MODULE Spec2Model ----
(***************************************************************************)
(* CsvSource, the streaming CSV source operator of polars-pipe             *)
(* (crates/polars-pipe/src/executors/sources/csv.rs).                      *)
(*                                                                         *)
(* Every operator is driven by its own thread.  The only state shared by   *)
(* the operators is the process-wide source-index counter CHUNK_INDEX,     *)
(* reached through get_source_index.  A get_batches call is split at the   *)
(* points where another thread can observe or change shared state (the     *)
(* two counter accesses) and where an early return leaves a resource       *)
(* created but not yet stored in the operator (between the two Box::leak). *)
(***************************************************************************)
EXTENDS Integers, Sequences, FiniteSets, TLC

\* ---------------------------------------------------------------- bounds
MaxRows == 4       \* a file holds 0..MaxRows data rows
ChunkRows == 2     \* rows per decoded batch (result of determine_chunk_size)
NThreads == 2      \* POOL.current_num_threads()
RowLimit == 3      \* the row limit a scan may carry in file_options.n_rows
FetchLimit == 2    \* the process-wide scan-row override, when set
SchemaLen == 3     \* columns of the schema an operator is constructed with
MaxProj == 2       \* a projection list names 0..MaxProj columns

\* Two operators, each driven by its own thread: what the operators share is
\* the counter alone, and every statement about concurrent operators is a
\* statement about any two of them.
Ops == {1, 2}

\* ------------------------------------------------------- Option<T> values
None == <<>>
Some(x) == <<x>>
IsSome(v) == v # None
IsNone(v) == v = None
Unwrap(v) == v[1]

Min(a, b) == IF a <= b THEN a ELSE b

\* Either::Left holds the BatchedCsvReaderMmap, Either::Right the
\* BatchedCsvReaderRead.
MemoryMapped == "Left"
Buffered == "Right"

VARIABLES
    pc,             \* position of each operator's driving thread
    schema,         \* CsvSource.schema (line 17)
    config,         \* arguments CsvSource::new was called with, and the file
    path,           \* CsvSource.path (line 22)
    options,        \* CsvSource.options (line 23)
    file_options,   \* CsvSource.file_options (line 24)
    reader,         \* CsvSource.reader (line 18)
    batched_reader, \* CsvSource.batched_reader (lines 19-20)
    readerBox,      \* the leaked Box<CsvReader<File>>, owns the file (78-79)
    decoderBox,     \* the leaked Box<BatchedCsvReader..>, borrows the reader
    low_memory,     \* local of init_reader (line 61)
    n_rows,         \* local of init_reader (line 52)
    n_cols,         \* local of init_reader (line 47)
    index,          \* local of get_batches (line 159)
    batches,        \* local of get_batches (line 144)
    result,         \* what the last get_batches call returned
    emitted,        \* every chunk returned so far, in order (history)
    decoded,        \* every batch next_batches handed out, in order (history)
    initCalls,      \* how many times init_reader was entered (history)
    firstIndex,     \* the counter when get_batches was first called (history)
    decodeFailed,   \* next_batches has returned an error (history)
    CHUNK_INDEX,    \* the process-wide source-index counter
    FETCH_ROWS      \* the process-wide scan-row override

vars == <<pc, schema, config, path, options, file_options, reader,
          batched_reader, readerBox, decoderBox, low_memory, n_rows, n_cols,
          index, batches, result, emitted, decoded, initCalls, firstIndex,
          decodeFailed, CHUNK_INDEX, FETCH_ROWS>>

\* The projection lists a scan may carry in file_options.with_columns: none,
\* or the first k columns of the schema, k = 0 being the empty list.
Projections == {None} \cup {Some([i \in 1..k |-> i]) : k \in 0..MaxProj}

\* The configurations an operator can be constructed with: the data rows of
\* the file at its path, the low_memory flag, the scan's row limit, its
\* projection and the width of the schema.
Configs ==
    [rows : 0..MaxRows, low_memory : BOOLEAN, n_rows : {None, Some(RowLimit)},
     with_columns : Projections, schema_len : {SchemaLen}]

\* The configurations used when several operators run side by side: what
\* the operators share does not depend on the row limit or the file length.
SharedConfigs ==
    [rows : {MaxRows}, low_memory : BOOLEAN, n_rows : {None},
     with_columns : {None}, schema_len : {SchemaLen}]

NoResult == [kind |-> "NoCall", out |-> <<>>]

Init ==
    /\ pc = [o \in Ops |-> "unborn"]
    /\ schema = [o \in Ops |-> None]
    /\ config = [o \in Ops |-> None]
    /\ path = [o \in Ops |-> None]
    /\ options = [o \in Ops |-> None]
    /\ file_options = [o \in Ops |-> None]
    /\ reader = [o \in Ops |-> None]
    /\ batched_reader = [o \in Ops |-> None]
    /\ readerBox = [o \in Ops |-> [status |-> "none", n_rows |-> None,
                                    columns |-> None]]
    /\ decoderBox = [o \in Ops |-> [status |-> "none", pos |-> 0]]
    /\ low_memory = [o \in Ops |-> FALSE]
    /\ n_rows = [o \in Ops |-> None]
    /\ n_cols = [o \in Ops |-> 0]
    /\ index = [o \in Ops |-> 0]
    /\ batches = [o \in Ops |-> <<>>]
    /\ result = [o \in Ops |-> NoResult]
    /\ emitted = [o \in Ops |-> <<>>]
    /\ decoded = [o \in Ops |-> <<>>]
    /\ initCalls = [o \in Ops |-> 0]
    /\ firstIndex = [o \in Ops |-> 0]
    /\ decodeFailed = [o \in Ops |-> FALSE]
    /\ CHUNK_INDEX = 0
    /\ FETCH_ROWS = None

\* The same, with the process-wide scan-row override either unset or set.
InitOne ==
    /\ pc = [o \in Ops |-> "unborn"]
    /\ schema = [o \in Ops |-> None]
    /\ config = [o \in Ops |-> None]
    /\ path = [o \in Ops |-> None]
    /\ options = [o \in Ops |-> None]
    /\ file_options = [o \in Ops |-> None]
    /\ reader = [o \in Ops |-> None]
    /\ batched_reader = [o \in Ops |-> None]
    /\ readerBox = [o \in Ops |-> [status |-> "none", n_rows |-> None,
                                    columns |-> None]]
    /\ decoderBox = [o \in Ops |-> [status |-> "none", pos |-> 0]]
    /\ low_memory = [o \in Ops |-> FALSE]
    /\ n_rows = [o \in Ops |-> None]
    /\ n_cols = [o \in Ops |-> 0]
    /\ index = [o \in Ops |-> 0]
    /\ batches = [o \in Ops |-> <<>>]
    /\ result = [o \in Ops |-> NoResult]
    /\ emitted = [o \in Ops |-> <<>>]
    /\ decoded = [o \in Ops |-> <<>>]
    /\ initCalls = [o \in Ops |-> 0]
    /\ firstIndex = [o \in Ops |-> 0]
    /\ decodeFailed = [o \in Ops |-> FALSE]
    /\ CHUNK_INDEX = 0
    /\ FETCH_ROWS \in {None, Some(FetchLimit)}

\* ------------------------------------------------------------ collaborators

\* polars_plan::global::_set_n_rows_for_scan: the scan's own row limit
\* combined with the process-wide override, which can only restrict it.
set_n_rows_for_scan(limit, fetch) ==
    IF IsNone(fetch) THEN limit
    ELSE IF IsNone(limit) THEN fetch
    ELSE Some(Min(Unwrap(limit), Unwrap(fetch)))

\* Rows the decoder will produce for a file of `rows` data rows (the header
\* is not counted in `rows`) under the reader's row limit.
EffRows(rows, limit) == IF IsNone(limit) THEN rows ELSE Min(rows, Unwrap(limit))

\* One decoded batch: the rows [offset, offset + rows) of the file.
BatchAt(pos, eff) == [offset |-> pos, rows |-> Min(ChunkRows, eff - pos)]

\* Batches still to be decoded from position pos.
Avail(pos, eff) == (eff - pos + ChunkRows - 1) \div ChunkRows

\* The next k batches from position pos, in file order.
Group(pos, eff, k) == [i \in 1..k |-> BatchAt(pos + (i - 1) * ChunkRows, eff)]

\* BatchedCsvReader{Mmap,Read}::next_batches(n), the successful outcomes:
\* None when the input is exhausted, otherwise up to n of the batches that
\* are left (possibly fewer, possibly an empty sequence).
NextBatchesOk(pos, eff, n) ==
    IF pos >= eff THEN {None}
    ELSE {Some(Group(pos, eff, k)) : k \in 0..Min(n, Avail(pos, eff))}

\* Decoder position after it handed out the group g.
Advance(pos, eff, g) == Min(pos + Len(g) * ChunkRows, eff)

\* get_source_index(add): CHUNK_INDEX.fetch_add(add), one atomic step that
\* returns the value before the addition.  The counter is a u32 that starts
\* at 0; the runs modelled here emit a handful of chunks, far from 2^32, so
\* the addition is written without its wrap-around.
SourceIndexReturned(counter, add) == counter
SourceIndexStored(counter, add) == counter + add

\* ------------------------------------------------------------- the operator

\* A slip of lines 81-89: the two branches exchanged.
SelectVariantSwapped(lm) == IF lm THEN MemoryMapped ELSE Buffered

\* Lines 81-89: the decoder variant chosen from the low_memory flag.
SelectVariant(lm) == IF lm THEN Buffered ELSE MemoryMapped

\* A slip of lines 160-167: the enumeration counted from 1.
StampChunksOffByOne(idx, bs) ==
    [i \in 1..Len(bs) |-> [chunk_index |-> idx + i, data |-> bs[i]]]

\* A slip of lines 160-167: the last batch of the group not collected.
StampChunksDropLast(idx, bs) ==
    [i \in 1..(Len(bs) - 1) |-> [chunk_index |-> idx + (i - 1), data |-> bs[i]]]

\* Lines 160-167: batch i (counted from 0) of the group gets index + i.
StampChunks(idx, bs) ==
    [i \in 1..Len(bs) |->
        [chunk_index |-> idx + (i - 1), data |-> bs[i]]]

\* A slip of CsvSource::new: the reader built, and the file opened, at
\* construction.
NewEager(o, cs) ==
    /\ pc[o] = "unborn"
    /\ \E c \in cs :
        /\ config' = [config EXCEPT ![o] = Some(c)]
        /\ path' = [path EXCEPT ![o] = Some(o)]
        /\ options' = [options EXCEPT ![o] = Some([low_memory |-> c.low_memory])]
        /\ schema' = [schema EXCEPT ![o] = Some(c.schema_len)]
        /\ file_options' = [file_options EXCEPT ![o] =
                Some([n_rows |-> c.n_rows, with_columns |-> c.with_columns])]
        /\ readerBox' = [readerBox EXCEPT ![o] =
                [status |-> "live", n_rows |-> c.n_rows, columns |-> c.with_columns]]
    /\ reader' = [reader EXCEPT ![o] = Some(o)]
    /\ batched_reader' = [batched_reader EXCEPT ![o] = None]
    /\ pc' = [pc EXCEPT ![o] = "idle"]
    /\ UNCHANGED <<decoderBox, low_memory, n_cols, n_rows, index, batches,
                   result, emitted, decoded, initCalls, firstIndex,
                   decodeFailed, CHUNK_INDEX, FETCH_ROWS>>

\* CsvSource::new: stores the configuration, opens nothing.
New(o, cs) ==
    /\ pc[o] = "unborn"
    /\ \E c \in cs :
        /\ config' = [config EXCEPT ![o] = Some(c)]
        /\ path' = [path EXCEPT ![o] = Some(o)]
        /\ options' = [options EXCEPT ![o] = Some([low_memory |-> c.low_memory])]
        /\ schema' = [schema EXCEPT ![o] = Some(c.schema_len)]
        /\ file_options' = [file_options EXCEPT ![o] =
                Some([n_rows |-> c.n_rows, with_columns |-> c.with_columns])]
    /\ reader' = [reader EXCEPT ![o] = None]
    /\ batched_reader' = [batched_reader EXCEPT ![o] = None]
    /\ pc' = [pc EXCEPT ![o] = "idle"]
    /\ UNCHANGED <<readerBox, decoderBox, low_memory, n_cols, n_rows, index,
                   batches, result, emitted, decoded, initCalls,
                   firstIndex, decodeFailed, CHUNK_INDEX, FETCH_ROWS>>

\* Rows the decoder of operator o produces in total.
Eff(o) == EffRows(Unwrap(config[o]).rows, readerBox[o].n_rows)

\* A call that ends with the value r (Ok(..) or Err(..)).
Return(o, r) ==
    /\ result' = [result EXCEPT ![o] = r]
    /\ pc' = [pc EXCEPT ![o] = "idle"]

\* A call that aborts the thread: unwrap() of an absent value.
Panic(o) ==
    /\ result' = [result EXCEPT ![o] = [kind |-> "Panic", out |-> <<>>]]
    /\ pc' = [pc EXCEPT ![o] = "panicked"]

ErrResult(kind) == [kind |-> kind, out |-> <<>>]

\* Lines 37-41: the length of the projection list, 0 when there is none.
ProjectedLen(wc) == IF IsSome(wc) THEN Len(Unwrap(wc)) ELSE 0

\* A slip of lines 43-45: the empty list handed on as it is.
ResolveColumnsKeepEmpty(wc) == wc

\* Lines 43-45 and 72: the projection the reader is built with; an empty
\* list is replaced by None.
ResolveColumns(wc) == IF ProjectedLen(wc) = 0 THEN None ELSE wc

\* Lines 47-51: the column count handed to determine_chunk_size.
NCols(wc, width) == IF ProjectedLen(wc) > 0 THEN ProjectedLen(wc) ELSE width

\* A slip of lines 33-35: the path cloned where it should be taken.
TakeConfigKeepPath(o) ==
    /\ options' = [options EXCEPT ![o] = None]
    /\ file_options' = [file_options EXCEPT ![o] = None]
    /\ path' = path

\* Lines 33-35: the three take() calls; the configuration leaves the
\* operator whatever happens afterwards.
TakeConfig(o) ==
    /\ options' = [options EXCEPT ![o] = None]
    /\ file_options' = [file_options EXCEPT ![o] = None]
    /\ path' = [path EXCEPT ![o] = None]

\* Lines 36-61: the locals computed from the taken configuration.
InitLocals(o) ==
    /\ low_memory' = [low_memory EXCEPT ![o] = Unwrap(options[o]).low_memory]
    /\ n_cols' = [n_cols EXCEPT ![o] =
                    NCols(Unwrap(file_options[o]).with_columns, Unwrap(schema[o]))]
    /\ n_rows' = [n_rows EXCEPT ![o] =
                    set_n_rows_for_scan(Unwrap(file_options[o]).n_rows, FETCH_ROWS)]

\* Lines 140-141: get_batches finds no reader and calls init_reader.  The
\* first time is the operator's first call.
EnterInit(o) ==
    /\ initCalls' = [initCalls EXCEPT ![o] = @ + 1]
    /\ firstIndex' = [firstIndex EXCEPT ![o] =
                        IF initCalls[o] = 0 THEN CHUNK_INDEX ELSE @]

\* get_batches, lines 140-141, entering init_reader with the configuration
\* already taken by an earlier call: the unwrap at line 33 aborts.
InitReaderPanic(o) ==
    /\ pc[o] = "idle"
    /\ IsNone(reader[o])
    /\ IsNone(options[o]) \/ IsNone(file_options[o]) \/ IsNone(path[o])
    /\ EnterInit(o)
    /\ options' = [options EXCEPT ![o] = None]
    /\ Panic(o)
    /\ UNCHANGED <<schema, config, path, file_options, reader, batched_reader,
                   readerBox, decoderBox, low_memory, n_cols, n_rows,
                   index, batches, emitted, decoded, decodeFailed,
                   CHUNK_INDEX, FETCH_ROWS>>

\* get_batches, lines 140-141, and init_reader up to line 76, where
\* determine_chunk_size (line 55) or the file open (line 76) fails: the `?`
\* returns the error, nothing was opened.
InitReaderSetupFails(o) ==
    /\ pc[o] = "idle"
    /\ IsNone(reader[o])
    /\ IsSome(options[o]) /\ IsSome(file_options[o]) /\ IsSome(path[o])
    /\ EnterInit(o)
    /\ TakeConfig(o)
    /\ InitLocals(o)
    /\ Return(o, ErrResult("InitErr"))
    /\ UNCHANGED <<schema, config, reader, batched_reader, readerBox,
                   decoderBox, index, batches, emitted, decoded,
                   decodeFailed, CHUNK_INDEX, FETCH_ROWS>>

\* A slip of lines 78-90: the reader stored in the operator as soon as it is
\* created, before the decoder exists.
InitReaderOpenStoresReader(o) ==
    /\ pc[o] = "idle"
    /\ IsNone(reader[o])
    /\ IsSome(options[o]) /\ IsSome(file_options[o]) /\ IsSome(path[o])
    /\ EnterInit(o)
    /\ TakeConfig(o)
    /\ InitLocals(o)
    /\ readerBox' = [readerBox EXCEPT ![o] =
            [status |-> "live", n_rows |-> n_rows'[o],
             columns |-> ResolveColumns(Unwrap(file_options[o]).with_columns)]]
    /\ reader' = [reader EXCEPT ![o] = Some(o)]
    /\ pc' = [pc EXCEPT ![o] = "init_decoder"]
    /\ UNCHANGED <<schema, config, batched_reader, decoderBox, index, batches,
                   result, emitted, decoded, decodeFailed, CHUNK_INDEX,
                   FETCH_ROWS>>

\* get_batches, lines 140-141, and init_reader up to line 79: the file is
\* open and the reader lives in a leaked Box known only to the local `reader`.
InitReaderOpen(o) ==
    /\ pc[o] = "idle"
    /\ IsNone(reader[o])
    /\ IsSome(options[o]) /\ IsSome(file_options[o]) /\ IsSome(path[o])
    /\ EnterInit(o)
    /\ TakeConfig(o)
    /\ InitLocals(o)
    /\ readerBox' = [readerBox EXCEPT ![o] =
            [status |-> "live", n_rows |-> n_rows'[o],
             columns |-> ResolveColumns(Unwrap(file_options[o]).with_columns)]]
    /\ pc' = [pc EXCEPT ![o] = "init_decoder"]
    /\ UNCHANGED <<schema, config, reader, batched_reader, decoderBox, index,
                   batches, result, emitted, decoded, decodeFailed,
                   CHUNK_INDEX, FETCH_ROWS>>

\* init_reader, lines 82/86: batched_borrowed_read / batched_borrowed_mmap
\* fails and `?` returns; lines 90-91 are not reached.
InitDecoderFails(o) ==
    /\ pc[o] = "init_decoder"
    /\ Return(o, ErrResult("InitErr"))
    /\ UNCHANGED <<schema, config, path, options, file_options, reader,
                   batched_reader, readerBox, decoderBox, low_memory,
                   n_cols, n_rows, index, batches, emitted, decoded,
                   initCalls, firstIndex, decodeFailed, CHUNK_INDEX,
                   FETCH_ROWS>>

\* init_reader, lines 81-92: the decoder is created and both pointers are
\* stored in the operator.
InitDecoder(o) ==
    /\ pc[o] = "init_decoder"
    /\ decoderBox' = [decoderBox EXCEPT ![o] = [status |-> "live", pos |-> 0]]
    /\ reader' = [reader EXCEPT ![o] = Some(o)]
    /\ batched_reader' = [batched_reader EXCEPT ![o] = Some(SelectVariant(low_memory[o]))]
    /\ pc' = [pc EXCEPT ![o] = "next_batches"]
    /\ UNCHANGED <<schema, config, path, options, file_options, readerBox,
                   low_memory, n_cols, n_rows, index, batches, result,
                   emitted, decoded, initCalls, firstIndex, decodeFailed,
                   CHUNK_INDEX, FETCH_ROWS>>

\* A call is at line 144: either it just initialized, or it is a later call
\* that found the reader present at line 140.
AtNextBatches(o) == pc[o] = "next_batches" \/ (pc[o] = "idle" /\ IsSome(reader[o]))

\* A slip of lines 144-159: the indices reserved before the decoder is asked,
\* so that a failing call has already advanced the counter.
NextBatchesErrReserved(o) ==
    /\ AtNextBatches(o)
    /\ IsSome(batched_reader[o])
    /\ \E p \in {decoderBox[o].pos, Min(decoderBox[o].pos + ChunkRows, Eff(o))} :
        decoderBox' = [decoderBox EXCEPT ![o].pos = p]
    /\ decodeFailed' = [decodeFailed EXCEPT ![o] = TRUE]
    /\ CHUNK_INDEX' = CHUNK_INDEX + NThreads
    /\ Return(o, ErrResult("DecodeErr"))
    /\ UNCHANGED <<schema, config, path, options, file_options, reader,
                   batched_reader, readerBox, low_memory, n_cols, n_rows,
                   index, batches, emitted, decoded, initCalls,
                   firstIndex, FETCH_ROWS>>

\* Lines 144-155, next_batches returns an error and `?` returns it.  The
\* decoder may have consumed input it never handed out.
NextBatchesErr(o) ==
    /\ AtNextBatches(o)
    /\ IsSome(batched_reader[o])
    /\ \E p \in {decoderBox[o].pos, Min(decoderBox[o].pos + ChunkRows, Eff(o))} :
        decoderBox' = [decoderBox EXCEPT ![o].pos = p]
    /\ decodeFailed' = [decodeFailed EXCEPT ![o] = TRUE]
    /\ Return(o, ErrResult("DecodeErr"))
    /\ UNCHANGED <<schema, config, path, options, file_options, reader,
                   batched_reader, readerBox, low_memory, n_cols, n_rows,
                   index, batches, emitted, decoded, initCalls,
                   firstIndex, CHUNK_INDEX, FETCH_ROWS>>

\* Lines 144-159.  The unwrap at line 144 aborts when there is no decoder.
\* Otherwise next_batches answers: None ends the call with Finished (line
\* 157); Some(batches) goes on to read the counter, get_source_index(0).
NextBatches(o) ==
    /\ AtNextBatches(o)
    /\ IF IsNone(batched_reader[o])
       THEN /\ Panic(o)
            /\ UNCHANGED <<decoderBox, batches, decoded, index, CHUNK_INDEX>>
       ELSE \E r \in NextBatchesOk(decoderBox[o].pos, Eff(o), NThreads) :
            IF IsNone(r)
            THEN /\ Return(o, [kind |-> "Finished", out |-> <<>>])
                 /\ UNCHANGED <<decoderBox, batches, decoded, index, CHUNK_INDEX>>
            ELSE /\ decoderBox' = [decoderBox EXCEPT ![o].pos =
                                     Advance(@, Eff(o), Unwrap(r))]
                 /\ batches' = [batches EXCEPT ![o] = Unwrap(r)]
                 /\ decoded' = [decoded EXCEPT ![o] = @ \o Unwrap(r)]
                 /\ index' = [index EXCEPT ![o] = SourceIndexReturned(CHUNK_INDEX, 0)]
                 /\ CHUNK_INDEX' = SourceIndexStored(CHUNK_INDEX, 0)
                 /\ pc' = [pc EXCEPT ![o] = "stamp"]
                 /\ UNCHANGED result
    /\ UNCHANGED <<schema, config, path, options, file_options, reader,
                   batched_reader, readerBox, low_memory, n_cols, n_rows,
                   emitted, initCalls, firstIndex, decodeFailed,
                   FETCH_ROWS>>

\* A slip of lines 160-169: line 168 forgotten, the counter is not advanced.
StampNoAdvance(o) ==
    /\ pc[o] = "stamp"
    /\ LET out == StampChunks(index[o], batches[o]) IN
        /\ CHUNK_INDEX' = CHUNK_INDEX
        /\ emitted' = [emitted EXCEPT ![o] = @ \o out]
        /\ Return(o, [kind |-> "GotMoreData", out |-> out])
    /\ UNCHANGED <<schema, config, path, options, file_options, reader,
                   batched_reader, readerBox, decoderBox, low_memory,
                   n_cols, n_rows, index, batches, decoded, initCalls,
                   firstIndex, decodeFailed, FETCH_ROWS>>

\* A slip of lines 160-169: the counter stored from the index read at line
\* 159 instead of advanced by a fetch-and-add.
StampStore(o) ==
    /\ pc[o] = "stamp"
    /\ LET out == StampChunks(index[o], batches[o]) IN
        /\ CHUNK_INDEX' = index[o] + Len(out)
        /\ emitted' = [emitted EXCEPT ![o] = @ \o out]
        /\ Return(o, [kind |-> "GotMoreData", out |-> out])
    /\ UNCHANGED <<schema, config, path, options, file_options, reader,
                   batched_reader, readerBox, decoderBox, low_memory,
                   n_cols, n_rows, index, batches, decoded, initCalls,
                   firstIndex, decodeFailed, FETCH_ROWS>>

\* Lines 160-169: the chunks are stamped from the index read before, the
\* counter is advanced by their number, and the call returns them.
Stamp(o) ==
    /\ pc[o] = "stamp"
    /\ LET out == StampChunks(index[o], batches[o]) IN
        /\ CHUNK_INDEX' = SourceIndexStored(CHUNK_INDEX, Len(out))
        /\ emitted' = [emitted EXCEPT ![o] = @ \o out]
        /\ Return(o, [kind |-> "GotMoreData", out |-> out])
    /\ UNCHANGED <<schema, config, path, options, file_options, reader,
                   batched_reader, readerBox, decoderBox, low_memory,
                   n_cols, n_rows, index, batches, decoded, initCalls,
                   firstIndex, decodeFailed, FETCH_ROWS>>

\* Drop, lines 118-127: the decoder is released if the operator holds one.
\* The operator is dropped between calls, or while a panic unwinds.
DropDecoder(o) ==
    /\ pc[o] \in {"idle", "panicked"}
    /\ decoderBox' = IF IsSome(batched_reader[o])
                     THEN [decoderBox EXCEPT ![o].status = "freed"]
                     ELSE decoderBox
    /\ pc' = [pc EXCEPT ![o] = "drop_reader"]
    /\ UNCHANGED <<schema, config, path, options, file_options, reader,
                   batched_reader, readerBox, low_memory, n_cols, n_rows,
                   index, batches, result, emitted, decoded, initCalls,
                   firstIndex, decodeFailed, CHUNK_INDEX, FETCH_ROWS>>

\* A slip of lines 128-130: the reader released without the test for Some.
DropReaderUnchecked(o) ==
    /\ pc[o] = "drop_reader"
    /\ readerBox' = [readerBox EXCEPT ![o].status = "freed"]
    /\ pc' = [pc EXCEPT ![o] = "dropped"]
    /\ UNCHANGED <<schema, config, path, options, file_options, reader,
                   batched_reader, decoderBox, low_memory, n_cols, n_rows,
                   index, batches, result, emitted, decoded, initCalls,
                   firstIndex, decodeFailed, CHUNK_INDEX, FETCH_ROWS>>

\* Drop, lines 128-130: the reader is released if the operator holds one.
DropReader(o) ==
    /\ pc[o] = "drop_reader"
    /\ readerBox' = IF IsSome(reader[o])
                    THEN [readerBox EXCEPT ![o].status = "freed"]
                    ELSE readerBox
    /\ pc' = [pc EXCEPT ![o] = "dropped"]
    /\ UNCHANGED <<schema, config, path, options, file_options, reader,
                   batched_reader, decoderBox, low_memory, n_cols,
                   n_rows, index, batches, result, emitted, decoded,
                   initCalls, firstIndex, decodeFailed, CHUNK_INDEX,
                   FETCH_ROWS>>

\* Every step the thread of a constructed operator o can take.
Run(o) ==
    \/ InitReaderPanic(o)
    \/ InitReaderSetupFails(o)
    \/ InitReaderOpen(o)
    \/ InitDecoderFails(o)
    \/ InitDecoder(o)
    \/ NextBatchesErr(o)
    \/ NextBatches(o)
    \/ Stamp(o)
    \/ DropDecoder(o)
    \/ DropReader(o)

\* Every step operator o's thread can take, constructed from one of cs.
Step(o, cs) == New(o, cs) \/ Run(o)

\* Several operators, each on its own thread, interleaved at every step.
Next == \E o \in Ops : Step(o, SharedConfigs)

Spec == Init /\ [][Next]_vars

\* One operator alone in the process, over every configuration.
NextOne == Step(1, Configs)

SpecOne == InitOne /\ [][NextOne]_vars

\* The operators run one after the other: an operator is constructed and
\* driven only when every operator before it has been discarded, so each is
\* the only user of the counter during its run.
NewInTurn(o) ==
    /\ \A p \in Ops : p < o => pc[p] = "dropped"
    /\ New(o, SharedConfigs)

NextTurns == \E o \in Ops : NewInTurn(o) \/ Run(o)

SpecTurns == Init /\ [][NextTurns]_vars

\* -------------------------------------------------------------- properties

\* chunk_index values operator o has emitted so far.
Indices(o) == {emitted[o][i].chunk_index : i \in 1..Len(emitted[o])}

\* The batches inside the chunks operator o has emitted so far.
Data(o) == [i \in 1..Len(emitted[o]) |-> emitted[o][i].data]

RECURSIVE SumRows(_)
SumRows(bs) == IF bs = <<>> THEN 0 ELSE bs[1].rows + SumRows(Tail(bs))

\* C1: two operators whose get_batches calls run concurrently never emit the
\* same chunk_index value: the sets of indices they emitted are disjoint.
C1_DisjointIndices ==
    \A a \in Ops : \A b \in Ops : a # b => Indices(a) \cap Indices(b) = {}

\* C2: a call that returned GotMoreData with k chunks gave them the indices
\* start, start+1, .., start+k-1 in the order the decoder returned the
\* batches, start being the counter value the call read; the indices are
\* contiguous and strictly increasing.
C2_Returned(o) == result[o].kind = "GotMoreData" /\ pc[o] = "idle"

C2_ContiguousInCall ==
    /\ [](\A o \in Ops : C2_Returned(o) =>
            LET out == result[o].out IN
            /\ Len(out) = Len(batches[o])
            /\ \A i \in 1..Len(out) :
                /\ out[i].chunk_index = index[o] + (i - 1)
                /\ out[i].data = batches[o][i]
            /\ \A i \in 1..Len(out) : \A j \in 1..Len(out) :
                i < j => out[i].chunk_index < out[j].chunk_index)
    /\ [][\A o \in Ops : (pc[o] # "stamp" /\ pc'[o] = "stamp") =>
            index'[o] = CHUNK_INDEX]_vars

\* C2 witness: a later call (the counter had advanced) returned two chunks.
C2_Witness ==
    \E o \in Ops :
        /\ C2_Returned(o)
        /\ Len(result[o].out) >= 2
        /\ index[o] > 0

\* C3: construction opens nothing.  As long as get_batches was never called
\* on an operator it has no reader and no decoder and its file is not open;
\* the file is opened only by a step of the operator's first call.
C3_NoIoBeforeFirstCall ==
    /\ [](\A o \in Ops : initCalls[o] = 0 =>
            /\ IsNone(reader[o])
            /\ IsNone(batched_reader[o])
            /\ readerBox[o].status = "none"
            /\ decoderBox[o].status = "none")
    /\ [][\A o \in Ops :
            (readerBox[o].status = "none" /\ readerBox'[o].status = "live") =>
                /\ pc[o] = "idle"
                /\ result[o].kind = "NoCall"
                /\ initCalls[o] = 0
                /\ initCalls'[o] = 1]_vars

\* C3 witness: both operators are constructed, one was never called and
\* holds nothing, the other opened its file in its first call.
C3_Witness ==
    \E a \in Ops : \E b \in Ops :
        /\ pc[a] = "idle" /\ initCalls[a] = 0 /\ IsSome(path[a])
        /\ initCalls[b] = 1 /\ readerBox[b].status = "live"

\* C4: after the operator is discarded no reader it created is still alive
\* (no file stays open), whether or not a call failed.
C4_NoLeakAfterDiscard ==
    \A o \in Ops : pc[o] = "dropped" =>
        /\ readerBox[o].status # "live"
        /\ decoderBox[o].status # "live"

\* C5: init_reader is entered at most once per operator; after it failed no
\* later get_batches call enters it again.
C5_InitAtMostOnce == \A o \in Ops : initCalls[o] <= 1

\* C6: when init_reader returned an error the operator is as it was before
\* the call: path, read options and scan options present, with the values
\* given at construction, and neither reader nor decoder.
C6_FailedInitCommitsNothing ==
    \A o \in Ops : (result[o].kind = "InitErr" /\ pc[o] = "idle") =>
        /\ path[o] = Some(o)
        /\ options[o] = Some([low_memory |-> Unwrap(config[o]).low_memory])
        /\ file_options[o] = Some([n_rows |-> Unwrap(config[o]).n_rows,
                                   with_columns |-> Unwrap(config[o]).with_columns])
        /\ IsNone(reader[o])
        /\ IsNone(batched_reader[o])

\* The rows a complete read of operator o's file yields: the data rows of
\* the file, capped by the row limit in force.
C7_ExpectedRows(o) ==
    LET c == Unwrap(config[o])
        own == c.n_rows
        lim == IF IsNone(FETCH_ROWS) THEN own
               ELSE IF IsNone(own) THEN FETCH_ROWS
               ELSE IF Unwrap(own) <= Unwrap(FETCH_ROWS) THEN own ELSE FETCH_ROWS
    IN IF IsNone(lim) THEN c.rows
       ELSE IF c.rows <= Unwrap(lim) THEN c.rows ELSE Unwrap(lim)

\* C7: between calls, the batches in the emitted chunks are exactly the
\* batches the decoder handed out, each once and in order; and when a run
\* without a decode error has reached Finished their rows are the rows
\* [0, n) of the file in order without gap or overlap, n being the file's
\* data rows capped by the row limit in force.
C7_AllRowsEmitted ==
    \A o \in Ops :
        /\ pc[o] \in {"idle", "drop_reader", "dropped"} => Data(o) = decoded[o]
        /\ (result[o].kind = "Finished" /\ ~decodeFailed[o]) =>
            /\ SumRows(Data(o)) = C7_ExpectedRows(o)
            /\ \A i \in 1..Len(emitted[o]) :
                Data(o)[i].offset = SumRows(SubSeq(Data(o), 1, i - 1))

\* C7 witness: a run over a file longer than the row limit in force reached
\* Finished after emitting chunks in more than one call.
C7_Witness ==
    \E o \in Ops :
        /\ result[o].kind = "Finished" /\ ~decodeFailed[o]
        /\ Len(emitted[o]) >= 2
        /\ emitted[o][Len(emitted[o])].chunk_index = index[o]
        /\ C7_ExpectedRows(o) < Unwrap(config[o]).rows

\* C8: the decoder variant is the one the low_memory flag selects, Buffered
\* for true and MemoryMapped for false, and once chosen it stays the same in
\* every later state, teardown included.
C8_VariantFixed ==
    /\ [](\A o \in Ops : IsSome(batched_reader[o]) =>
            Unwrap(batched_reader[o]) =
                (IF Unwrap(config[o]).low_memory THEN Buffered ELSE MemoryMapped))
    /\ [][\A o \in Ops : IsSome(batched_reader[o]) =>
            batched_reader'[o] = batched_reader[o]]_vars

\* C8 witness: a low_memory operator torn down with the Buffered tag, next to
\* an operator that decoded through the MemoryMapped variant.
C8_Witness ==
    \E a \in Ops : \E b \in Ops :
        /\ pc[a] = "dropped" /\ batched_reader[a] = Some(Buffered)
        /\ Unwrap(config[a]).low_memory
        /\ result[b].kind = "GotMoreData" /\ batched_reader[b] = Some(MemoryMapped)
        /\ ~Unwrap(config[b]).low_memory

\* C9: the reader is created before the decoder and released after it, and
\* whatever was created is released exactly once by teardown: a decoder is
\* never alive without its reader alive, and after the discard nothing that
\* was created is still alive.
C9_OrderedLifetimes ==
    \A o \in Ops :
        /\ decoderBox[o].status = "live" => readerBox[o].status = "live"
        /\ readerBox[o].status = "freed" => decoderBox[o].status = "freed"
        /\ pc[o] = "dropped" =>
            /\ readerBox[o].status \in {"none", "freed"}
            /\ decoderBox[o].status \in {"none", "freed"}

\* C10: GotMoreData is never returned with zero chunks; an empty sequence
\* from next_batches is answered with Finished, like None.
C10_NeverEmptyGotMoreData ==
    \A o \in Ops : result[o].kind = "GotMoreData" => Len(result[o].out) > 0

\* C11: an operator that is the only user of the counter during its run
\* emits, over all its calls in order, the indices base, base+1, base+2, ..
\* without gap or repetition, base being the counter value at its first call.
C11_ContiguousRun ==
    \A o \in Ops : \A i \in 1..Len(emitted[o]) :
        emitted[o][i].chunk_index = firstIndex[o] + (i - 1)

\* C11 witness: an operator that started from an advanced counter emitted
\* its chunks in two calls and reached Finished.
C11_Witness ==
    \E o \in Ops :
        /\ firstIndex[o] > 0
        /\ result[o].kind = "Finished"
        /\ Len(emitted[o]) >= 2
        /\ emitted[o][Len(emitted[o])].chunk_index = index[o]

\* The projection operator o was constructed with is absent or empty.
C12_NoProjection(o) ==
    \/ IsNone(Unwrap(config[o]).with_columns)
    \/ Len(Unwrap(Unwrap(config[o]).with_columns)) = 0

\* C12: init_reader treats an empty projection list like an absent one: in
\* both cases the reader is built without a projection and the column count
\* for the chunk size is the schema width; a list of p > 0 columns gives p
\* and is handed to the reader.
C12_EmptyProjection ==
    \A o \in Ops : initCalls[o] >= 1 =>
        /\ n_cols[o] = IF C12_NoProjection(o)
                       THEN Unwrap(config[o]).schema_len
                       ELSE Len(Unwrap(Unwrap(config[o]).with_columns))
        /\ readerBox[o].status # "none" =>
            readerBox[o].columns = IF C12_NoProjection(o)
                                   THEN None
                                   ELSE Unwrap(config[o]).with_columns

\* C12 witness: an operator constructed with an empty projection list has
\* opened its reader without projection, with the schema width as column
\* count.
C12_Witness ==
    \E o \in Ops :
        /\ readerBox[o].status = "live"
        /\ Unwrap(config[o]).with_columns = Some(<<>>)
        /\ readerBox[o].columns = None
        /\ n_cols[o] = SchemaLen

\* The parts of the configuration given to CsvSource::new that operator o
\* still holds in its fields.
HeldConfig(o) ==
    {f \in {"path", "options", "file_options", "schema"} :
        \/ f = "path" /\ IsSome(path[o])
        \/ f = "options" /\ IsSome(options[o])
        \/ f = "file_options" /\ IsSome(file_options[o])
        \/ f = "schema" /\ IsSome(schema[o])}

\* C13, as stated: after a successful initialization the operator holds
\* nothing of the configuration it was constructed with.
C13_ConfigConsumed ==
    \A o \in Ops : IsSome(reader[o]) => HeldConfig(o) = {}

\* C13, amended: after a successful initialization path, read options and
\* scan options are empty in every later state and init_reader, their only
\* reader, is not entered again; the schema stays in the operator.
C13_ConfigConsumedButSchema ==
    /\ [](\A o \in Ops : IsSome(reader[o]) => HeldConfig(o) = {"schema"})
    /\ [][\A o \in Ops : IsSome(reader[o]) =>
            /\ initCalls'[o] = initCalls[o]
            /\ schema'[o] = schema[o]]_vars

\* C13 witness: an initialized operator went through several calls and its
\* teardown.
C13_Witness ==
    \E o \in Ops :
        /\ IsSome(reader[o])
        /\ pc[o] = "dropped"
        /\ result[o].kind = "Finished"
        /\ Len(emitted[o]) >= 1

\* Operator o, on which get_batches was never called, takes a step of its
\* teardown.
C14_DropsUncalled(o) ==
    /\ initCalls[o] = 0
    /\ pc[o] \in {"idle", "drop_reader"}
    /\ pc'[o] \in {"drop_reader", "dropped"}
    /\ pc'[o] # pc[o]

\* C14: discarding an operator on which get_batches was never called does
\* nothing: no resource is released, no error is raised, and the counter,
\* the operator's own fields and every other operator stay as they were.
C14_DropUncalledIsNoop ==
    /\ [](\A o \in Ops : (pc[o] = "dropped" /\ initCalls[o] = 0) =>
            /\ readerBox[o].status = "none"
            /\ decoderBox[o].status = "none"
            /\ result[o].kind = "NoCall")
    /\ [][\A o \in Ops : C14_DropsUncalled(o) =>
            /\ \A p \in Ops \ {o} : pc'[p] = pc[p]
            /\ UNCHANGED <<schema, config, path, options, file_options, reader,
                           batched_reader, readerBox, decoderBox, low_memory,
                           n_cols, n_rows, index, batches, result, emitted,
                           decoded, initCalls, firstIndex, decodeFailed,
                           CHUNK_INDEX, FETCH_ROWS>>]_vars

\* C14 witness: an operator was discarded without a call while another
\* operator had already emitted chunks.
C14_Witness ==
    \E o \in Ops : \E p \in Ops :
        /\ pc[o] = "dropped" /\ initCalls[o] = 0
        /\ Len(emitted[p]) > 0 /\ CHUNK_INDEX > 0

\* C15: only a call that returns GotMoreData emits chunks or advances the
\* counter.  A value returned as an error or as Finished carries no chunk,
\* and every step that changes the counter or some operator's emitted chunks
\* is the return of GotMoreData by that operator; so a call that fails (in
\* initialization or in decoding) or finishes leaves both as they were.  A
\* decode error ends the call in the step in which the decoder reports it:
\* the error is returned and the decoder hands out nothing more in that call.
C15_FailedCallEmitsNothing ==
    /\ [](\A o \in Ops :
            result[o].kind \in {"InitErr", "DecodeErr", "Finished"} =>
                result[o].out = <<>>)
    /\ [][/\ CHUNK_INDEX' # CHUNK_INDEX =>
                \E o \in Ops : /\ pc[o] = "stamp" /\ pc'[o] = "idle"
                               /\ result'[o].kind = "GotMoreData"
          /\ \A o \in Ops : emitted'[o] # emitted[o] =>
                /\ pc[o] = "stamp" /\ pc'[o] = "idle"
                /\ result'[o].kind = "GotMoreData"
                /\ emitted'[o] = emitted[o] \o result'[o].out
          /\ \A o \in Ops : (~decodeFailed[o] /\ decodeFailed'[o]) =>
                /\ pc'[o] = "idle"
                /\ result'[o].kind = "DecodeErr"
                /\ decoded'[o] = decoded[o]
                /\ CHUNK_INDEX' = CHUNK_INDEX]_vars

\* C15 witness: one operator got a decode error after it had emitted
\* chunks, another one reached Finished.
C15_Witness ==
    \E o \in Ops : \E p \in Ops :
        /\ result[o].kind = "DecodeErr" /\ Len(emitted[o]) > 0
        /\ result[p].kind = "Finished" /\ CHUNK_INDEX > 0

\* A get_batches call of operator o is in progress.
C16_InCall(o) == pc[o] \in {"init_decoder", "next_batches", "stamp"}

RECURSIVE C16_Total(_)
C16_Total(S) ==
    IF S = {} THEN 0
    ELSE LET o == CHOOSE x \in S : TRUE
         IN Len(emitted[o]) + C16_Total(S \ {o})

\* C16: whenever no call is in progress the counter is its initial value, 0,
\* plus the number of chunks all operators have emitted; and the counter
\* never decreases.
C16_CounterCountsChunks ==
    /\ []((\A o \in Ops : ~C16_InCall(o)) => CHUNK_INDEX = C16_Total(Ops))
    /\ [][CHUNK_INDEX' >= CHUNK_INDEX]_vars

\* C16 witness: no call is in progress after two calls of different
\* operators overlapped (both emitted the same index) and three or more
\* chunks were emitted.
C16_Witness ==
    /\ \A o \in Ops : ~C16_InCall(o)
    /\ \E a \in Ops : \E b \in Ops :
        a # b /\ Indices(a) \cap Indices(b) # {}
    /\ CHUNK_INDEX >= 3

\* C17: between operations (after new and after every return of
\* get_batches, with a value or with an error) the operator holds a reader
\* exactly when it holds a decoder.
C17_ReaderIffDecoder ==
    \A o \in Ops : pc[o] = "idle" =>
        (IsSome(reader[o]) <=> IsSome(batched_reader[o]))

\* C17 witness: one operator returned the error of a failed decoder
\* construction and holds neither, another returned chunks and holds both.
C17_Witness ==
    \E a \in Ops : \E b \in Ops :
        /\ pc[a] = "idle" /\ result[a].kind = "InitErr"
        /\ readerBox[a].status = "live"
        /\ IsNone(reader[a]) /\ IsNone(batched_reader[a])
        /\ pc[b] = "idle" /\ result[b].kind = "GotMoreData"
        /\ IsSome(reader[b]) /\ IsSome(batched_reader[b])

\* C18: get_batches always ends by returning a value or an error; no call
\* aborts on an unwrap of an absent value.
C18_NeverPanics ==
    \A o \in Ops : pc[o] # "panicked" /\ result[o].kind # "Panic"
====
